---- MODULE Spec2Model ----
(***************************************************************************)
(* State-machine model of src/mcp_server.py: the MCP tool server of the   *)
(* travel agent.  call_tool coroutines run on one asyncio event loop; the *)
(* blocking collaborators (graph.invoke, serp_search) run on the threads  *)
(* of the loop's default executor via asyncio.to_thread.                  *)
(***************************************************************************)
EXTENDS Integers, Sequences, FiniteSets, TLC

\* ------------------------------------------------------------- bounds
MaxCalls == 2          \* call_tool requests dispatched in one behaviour
MaxListCalls == 2      \* list_tools requests answered in one behaviour
PoolSize == 1          \* threads of the default executor (scaled down)

Calls == 1..MaxCalls

\* ------------------------------------------------------ Python values
Str(s) == [type |-> "str", val |-> s]
None == [type |-> "NoneType"]
List(items) == [type |-> "list", val |-> items]
\* a dict keeps insertion order: a sequence of <<key, value>> pairs
Dict(pairs) == [type |-> "dict", val |-> pairs]
\* a value json.dumps has no encoder for (e.g. a message object)
Obj == [type |-> "object"]

Has(d, k) == \E i \in 1..Len(d.val) : d.val[i][1] = k

\* d.get(k): the value, or None when the key is absent
DictGet(d, k) ==
    IF Has(d, k)
    THEN d.val[CHOOSE i \in 1..Len(d.val) : d.val[i][1] = k][2]
    ELSE None

\* d[k] = v on a copy of d: replaces in place, or appends a new key
DictSet(d, k, v) ==
    IF Has(d, k)
    THEN Dict([i \in 1..Len(d.val) |->
                 IF d.val[i][1] = k THEN <<k, v>> ELSE d.val[i]])
    ELSE Dict(Append(d.val, <<k, v>>))

\* del d[k] on a copy of d
DictDel(d, k) == Dict(SelectSeq(d.val, LAMBDA p : p[1] # k))

\* Python truthiness as `if x:` and `x or y` evaluate it (variant used by
\* the mutation check: tests `is not None` instead of truthiness)
TruthyIsNotNone(v) == v.type # "NoneType"

Truthy(v) ==
    CASE v.type = "str" -> v.val # ""
      [] v.type = "NoneType" -> FALSE
      [] v.type = "list" -> Len(v.val) > 0
      [] v.type = "dict" -> Len(v.val) > 0
      [] OTHER -> TRUE

\* faulty variant: only None is replaced by the second operand
PyOrNoneOnly(a, b) == IF a.type = "NoneType" THEN b ELSE a

\* a or b
PyOr(a, b) == IF Truthy(a) THEN a ELSE b

\* str(v), as an f-string's {v} formats it
PyStr(v) ==
    CASE v.type = "str" -> v.val
      [] v.type = "NoneType" -> "None"
      [] OTHER -> "<" \o v.type \o ">"

RECURSIVE Join(_, _)
\* sep.join(parts)
Join(sep, parts) ==
    IF Len(parts) = 0 THEN ""
    ELSE IF Len(parts) = 1 THEN parts[1]
    ELSE parts[1] \o sep \o Join(sep, Tail(parts))

\* exceptions: class and argument
Exc(cls, arg) == [cls |-> cls, arg |-> arg]
KeyError(k) == Exc("KeyError", k)

\* ----------------------------------------------------- json.dumps, encode
RECURSIVE Serializable(_)
\* json.dumps(v) raises TypeError unless every value in v has an encoder
Serializable(v) ==
    CASE v.type = "object" -> FALSE
      [] v.type = "list" -> \A i \in 1..Len(v.val) : Serializable(v.val[i])
      [] v.type = "dict" -> \A i \in 1..Len(v.val) : Serializable(v.val[i][2])
      [] OTHER -> TRUE

RECURSIVE Dumps(_, _)
\* json.dumps(v, indent=2), with `ind` the indentation of the enclosing line
Dumps(v, ind) ==
    LET inner == ind \o "  "
        item(i) ==
            IF v.type = "dict"
            THEN inner \o "\"" \o v.val[i][1] \o "\": " \o Dumps(v.val[i][2], inner)
            ELSE inner \o Dumps(v.val[i], inner)
        items == [i \in 1..Len(v.val) |-> item(i)]
    IN  CASE v.type = "str" -> "\"" \o v.val \o "\""
          [] v.type = "NoneType" -> "null"
          [] v.type = "list" ->
                IF Len(v.val) = 0 THEN "[]"
                ELSE "[\n" \o Join(",\n", items) \o "\n" \o ind \o "]"
          [] v.type = "dict" ->
                IF Len(v.val) = 0 THEN "{}"
                ELSE "{\n" \o Join(",\n", items) \o "\n" \o ind \o "}"
          [] OTHER -> "<" \o v.type \o ">"

\* the TypeError json.dumps raises, if any
SerializationError(v) ==
    IF Serializable(v) THEN {}
    ELSE {Exc("TypeError", "Object is not JSON serializable")}

\* payload.encode("utf-8")
Encode(s) == [type |-> "bytes", val |-> s]

\* faulty variant: the seed message is added only for a non-empty question
DefaultStateSeedIfAsked(question) ==
    Dict(<< <<"messages",
              IF Truthy(question)
              THEN List(<< Dict(<< <<"role", Str("user")>>,
                                   <<"content", question>> >>) >>)
              ELSE List(<<>>)>>,
            <<"user_question", question>>,
            <<"google_results", None>>,
            <<"bing_results", None>>,
            <<"reddit_results", None>>,
            <<"selected_reddit_urls", None>>,
            <<"reddit_post_data", None>>,
            <<"google_analysis", None>>,
            <<"bing_analysis", None>>,
            <<"reddit_analysis", None>>,
            <<"final_answer", None>> >>)

\* --------------------------------------------------------- _default_state
_default_state(question) ==
    Dict(<< <<"messages",
              List(<< Dict(<< <<"role", Str("user")>>,
                              <<"content", question>> >>) >>)>>,
            <<"user_question", question>>,
            <<"google_results", None>>,
            <<"bing_results", None>>,
            <<"reddit_results", None>>,
            <<"selected_reddit_urls", None>>,
            <<"reddit_post_data", None>>,
            <<"google_analysis", None>>,
            <<"bing_analysis", None>>,
            <<"reddit_analysis", None>>,
            <<"final_answer", None>> >>)

\* --------------------------------------------------------- _flight_lookup
\* faulty variant: reads the required fields with .get, so nothing is raised
FlightLookupKeyErrorGet(arguments) == {}

\* arguments["origin"], arguments["destination"]: the KeyError they raise
FlightLookupKeyError(arguments) ==
    IF ~Has(arguments, "origin") THEN {KeyError("origin")}
    ELSE IF ~Has(arguments, "destination") THEN {KeyError("destination")}
    ELSE {}

\* query_parts and " ".join(query_parts)
FlightQuery(arguments) ==
    LET origin == DictGet(arguments, "origin")
        destination == DictGet(arguments, "destination")
        depart_date == DictGet(arguments, "depart_date")
        return_date == DictGet(arguments, "return_date")
        parts0 == << "flights from " \o PyStr(origin) \o " to "
                       \o PyStr(destination) >>
        parts1 == IF Truthy(depart_date)
                  THEN Append(parts0, "on " \o PyStr(depart_date))
                  ELSE parts0
        parts2 == IF Truthy(return_date)
                  THEN Append(parts1, "return " \o PyStr(return_date))
                  ELSE parts1
    IN  Join(" ", parts2)

\* faulty variant: another engine
SearchEngineBing == "bing"

\* engine="google"
SearchEngine == "google"

\* {"query": query, "results": search_results}
FlightPayload(query, search_results) ==
    Dict(<< <<"query", Str(query)>>, <<"results", search_results>> >>)

\* ------------------------------------------------------------ tool names
PlanTrip == "travel.plan_trip"
SearchFlights == "travel.search_flights"

\* if name == "travel.plan_trip"
IsPlanTrip(n) == n = PlanTrip

\* faulty variant: every name that is not plan_trip is taken for a search
IsSearchFlightsFallthrough(n) == n # PlanTrip

\* if name == "travel.search_flights"
IsSearchFlights(n) == n = SearchFlights

\* faulty variant: the question is not looked up before the job is submitted
PlanTripKeyErrorOnWorker(arguments) == {}

\* arguments["question"]: the KeyError it raises
PlanTripKeyError(arguments) ==
    IF Has(arguments, "question") THEN {} ELSE {KeyError("question")}

\* mcp_types.ToolError(f"Unsupported tool: {name}")
UnsupportedTool(n) == Exc("ToolError", "Unsupported tool: " \o n)

\* faulty variant: the blob is put before the text part
ToolResponseBlobFirst(text, payload, filename) ==
    [content |-> << [kind |-> "blob", data |-> Encode(payload),
                     media_type |-> "application/json",
                     filename |-> filename],
                    [kind |-> "text", text |-> text] >>]

\* mcp_types.ToolResponse(content=[TextContent, BlobContent])
ToolResponse(text, payload, filename) ==
    [content |-> << [kind |-> "text", text |-> text],
                    [kind |-> "blob", data |-> Encode(payload),
                     media_type |-> "application/json",
                     filename |-> filename] >>]

\* result.get("final_answer") or "No response produced."
FinalAnswerText(result) ==
    PyOr(DictGet(result, "final_answer"), Str("No response produced."))

\* faulty variant: the text shown is written back into the result before it
\* is serialized
PlanTripResponsePatched(result) ==
    ToolResponse(FinalAnswerText(result),
                 Dumps(DictSet(result, "final_answer", FinalAnswerText(result)), ""),
                 "plan_trip.json")

\* the plan_trip branch after the await: text, payload, response
PlanTripResponse(result) ==
    ToolResponse(FinalAnswerText(result), Dumps(result, ""), "plan_trip.json")

\* the search_flights branch after the await: summary, payload, response
FlightResponse(flight_payload) ==
    ToolResponse(Str("Flight SERP query executed: "
                     \o PyStr(DictGet(flight_payload, "query"))),
                 Dumps(flight_payload, ""), "flight_search.json")

\* ------------------------------------------------------------ list_tools
StringSchema(description) == [type |-> "string", description |-> description]

\* faulty variant: the second descriptor is registered under the first name
ToolDescriptorsDuplicate ==
    << [name |-> "travel.plan_trip",
        description |-> "Run the full travel research agent and return a synthesized itinerary.",
        input_schema |->
          [type |-> "object",
           properties |-> << <<"question", StringSchema("User travel request")>> >>,
           required |-> <<"question">>]],
       [name |-> "travel.plan_trip",
        description |-> "Perform a targeted flight availability search using Bright Data SERP. Returns the parsed search response for downstream tooling.",
        input_schema |->
          [type |-> "object",
           properties |->
             << <<"origin", StringSchema("IATA origin code")>>,
                <<"destination", StringSchema("IATA destination code")>> >>,
           required |-> <<"origin", "destination">>]] >>

\* the descriptors list_tools returns
ToolDescriptors ==
    << [name |-> "travel.plan_trip",
        description |->
          "Run the full travel research agent and return a synthesized itinerary.",
        input_schema |->
          [type |-> "object",
           properties |-> << <<"question", StringSchema("User travel request")>> >>,
           required |-> <<"question">>]],
       [name |-> "travel.search_flights",
        description |->
          "Perform a targeted flight availability search using Bright Data SERP. Returns the parsed search response for downstream tooling.",
        input_schema |->
          [type |-> "object",
           properties |->
             << <<"origin", StringSchema("IATA origin code")>>,
                <<"destination", StringSchema("IATA destination code")>>,
                <<"depart_date", StringSchema("YYYY-MM-DD departure date")>>,
                <<"return_date", StringSchema("Optional return date")>> >>,
           required |-> <<"origin", "destination">>]] >>

\* -------------------------------------------------- asyncio.to_thread
\* faulty variant: the blocking call is made inline, on the event loop
ExecutionContextLoop == "loop"

\* where a blocking call runs: asyncio.to_thread hands it to a worker thread
ExecutionContext == "worker"

\* faulty variant: a failure of the worker is dropped by the await
AwaitSwallows(f) == {}

\* `await asyncio.to_thread(...)`: the exception the await re-raises, if any
AwaitRaises(f) == IF f.status = "exception" THEN {f.exc} ELSE {}

\* faulty variant: one module-level state object is reused by every call
SharedObject(n) == 1

\* the identity of the dict a dict display creates: a new object each time
NewObject(n) == n

\* ---------------------------------------------------------- collaborators
\* graph.invoke(state): the result mappings the pipeline may return
PipelineResults(state) ==
    LET answered == DictSet(state, "final_answer",
                       Str("Itinerary for "
                           \o PyStr(DictGet(state, "user_question"))))
    IN  { answered,
          DictSet(state, "final_answer", Str("")),
          state,
          DictDel(state, "final_answer"),
          DictSet(answered, "messages", List(<<Obj>>)) }

\* serp_search(query, engine): the results the search may return
SearchResults(query, engine) ==
    { Dict(<< <<"organic",
                List(<<Str(engine \o " result for " \o query)>>)>> >>),
      Obj }

\* what a collaborator may raise
CollaboratorExceptions ==
    { Exc("RuntimeError", "collaborator failed"),
      Exc("TypeError", "Object is not JSON serializable") }

\* ------------------------------------------------------------------ state
VARIABLES
    name,         \* name[c]: the tool name call c was made with
    args,         \* args[c]: its arguments dict
    pc,           \* idle | queued | running | completed | done
    workQueue,    \* the executor's FIFO queue of submitted jobs (call ids)
    heap,         \* heap[id]: the state dict object with that identity
    nextId,       \* the identity the next created object gets
    stateRef,     \* stateRef[c]: identity of the state of call c (0: none)
    invocations,  \* invocations[c]: the collaborator invocations of call c
    collab,       \* collab[c]: what the collaborator returned or raised
    fut,          \* fut[c]: the future the call awaits
    responses,    \* responses[c]: the ToolResponses returned to the caller
    errors,       \* errors[c]: the exceptions raised to the caller
    stages,       \* stages[c]: the stages of call c, <<stage, context>>
    listCount,    \* list_tools requests answered
    listed        \* what the last list_tools returned

vars == << name, args, pc, workQueue, heap, nextId, stateRef, invocations,
           collab, fut, responses, errors, stages, listCount, listed >>

callVars == << name, args, pc, workQueue, heap, nextId, stateRef,
               invocations, collab, fut, responses, errors, stages >>

NoExc == Exc("", "")
NoFuture == [status |-> "none", result |-> Dict(<<>>), exc |-> NoExc]
NoOutcome == [status |-> "none", value |-> None, exc |-> NoExc]

Init ==
    /\ name = [c \in Calls |-> ""]
    /\ args = [c \in Calls |-> Dict(<<>>)]
    /\ pc = [c \in Calls |-> "idle"]
    /\ workQueue = <<>>
    /\ heap = [i \in Calls |-> None]
    /\ nextId = 1
    /\ stateRef = [c \in Calls |-> 0]
    /\ invocations = [c \in Calls |-> <<>>]
    /\ collab = [c \in Calls |-> NoOutcome]
    /\ fut = [c \in Calls |-> NoFuture]
    /\ responses = [c \in Calls |-> {}]
    /\ errors = [c \in Calls |-> {}]
    /\ stages = [c \in Calls |-> <<>>]
    /\ listCount = 0
    /\ listed = <<>>

\* faulty variant: the thread of a job whose collaborator raised is never
\* given back to the executor
BusyThreadsLeakOnFailure ==
    Cardinality({c \in Calls : pc[c] = "running" \/ collab[c].status = "raised"})

\* faulty variant: a thread stays taken until the awaiting call has resumed
BusyThreadsUntilResumed ==
    Cardinality({c \in Calls : pc[c] \in {"running", "completed"}})

\* threads of the executor that are inside a blocking call
BusyThreads == Cardinality({c \in Calls : pc[c] = "running"})

\* the event loop runs a coroutine step only when nothing blocks its thread
LoopFree ==
    \/ ExecutionContext = "worker"
    \/ \A c \in Calls : pc[c] \notin {"queued", "running"}

\* --------------------------------------------------------------- call_tool
\* faulty variant: failures are caught and logged, nothing is re-raised
RaisedLogged(raised, serr) == {}

\* what call_tool raises after the await: the worker's failure, else the
\* TypeError of json.dumps
Raised(raised, serr) == IF raised # {} THEN raised ELSE serr

\* what call_tool returns after the await: the response, unless it raised
Returned(raised, serr, resp) ==
    IF raised = {} /\ serr = {} THEN {resp} ELSE {}

\* call_tool up to its first await: routing, arguments["question"],
\* _default_state, and the hand-over of the blocking call to the executor
CallTool(c, n, a) ==
    LET route == IF IsPlanTrip(n)
                 THEN IF PlanTripKeyError(a) # {} THEN "plan_error" ELSE "plan"
                 ELSE IF IsSearchFlights(n) THEN "flights" ELSE "unsupported"
        ref == NewObject(nextId)
    IN  /\ pc[c] = "idle"
        /\ \A d \in Calls : d < c => pc[d] # "idle"
        /\ LoopFree
        /\ name' = [name EXCEPT ![c] = n]
        /\ args' = [args EXCEPT ![c] = a]
        /\ pc' = [pc EXCEPT ![c] =
                    IF route \in {"plan", "flights"} THEN "queued" ELSE "done"]
        /\ workQueue' = IF route \in {"plan", "flights"}
                        THEN Append(workQueue, c) ELSE workQueue
        /\ heap' = IF route = "plan"
                   THEN [heap EXCEPT ![ref] = _default_state(DictGet(a, "question"))]
                   ELSE heap
        /\ nextId' = IF route = "plan" THEN nextId + 1 ELSE nextId
        /\ stateRef' = IF route = "plan"
                       THEN [stateRef EXCEPT ![c] = ref] ELSE stateRef
        /\ errors' = [errors EXCEPT ![c] =
                        CASE route = "plan_error" -> PlanTripKeyError(a)
                          [] route = "unsupported" -> {UnsupportedTool(n)}
                          [] OTHER -> {}]
        /\ stages' = [stages EXCEPT ![c] =
                        CASE route = "plan_error" ->
                               << <<"lookup", "loop">>, <<"raise", "loop">> >>
                          [] route = "plan" ->
                               << <<"lookup", "loop">>, <<"build", "loop">>,
                                  <<"submit", "loop">> >>
                          [] route = "flights" -> << <<"submit", "loop">> >>
                          [] OTHER -> << <<"raise", "loop">> >>]
        /\ UNCHANGED << invocations, collab, fut, responses, listCount, listed >>

\* the executor starts the job of call c: graph.invoke(state), or
\* _flight_lookup(arguments) up to its call of serp_search
WorkerStart(c) ==
    LET ctx == ExecutionContext
        isPlan == IsPlanTrip(name[c])
        err == IF isPlan THEN {} ELSE FlightLookupKeyError(args[c])
        call == IF isPlan
                THEN [fn |-> "graph.invoke", args |-> <<heap[stateRef[c]]>>]
                ELSE [fn |-> "serp_search",
                      args |-> <<Str(FlightQuery(args[c])), Str(SearchEngine)>>]
    IN  /\ pc[c] = "queued"
        /\ workQueue # <<>> /\ Head(workQueue) = c
        /\ ctx = "worker" => BusyThreads < PoolSize
        /\ workQueue' = Tail(workQueue)
        /\ pc' = [pc EXCEPT ![c] = IF err # {} THEN "completed" ELSE "running"]
        /\ invocations' = IF err # {} THEN invocations
                          ELSE [invocations EXCEPT ![c] = Append(@, call)]
        /\ fut' = IF err # {}
                  THEN [fut EXCEPT ![c] = [status |-> "exception",
                                           result |-> Dict(<<>>),
                                           exc |-> CHOOSE e \in err : TRUE]]
                  ELSE fut
        /\ stages' = [stages EXCEPT ![c] =
                        IF isPlan THEN Append(@, <<"invoke", ctx>>)
                        ELSE IF err # {}
                        THEN @ \o << <<"lookup", ctx>>, <<"raise", ctx>> >>
                        ELSE @ \o << <<"lookup", ctx>>, <<"build", ctx>>,
                                     <<"invoke", ctx>> >>]
        /\ UNCHANGED << name, args, heap, nextId, stateRef, collab, responses,
                        errors, listCount, listed >>

\* the collaborator of call c returns, and the job's result completes the future
CollaboratorReturn(c) ==
    /\ pc[c] = "running"
    /\ LET call == invocations[c][Len(invocations[c])]
           isPlan == call.fn = "graph.invoke"
       IN  \E r \in (IF isPlan THEN PipelineResults(call.args[1])
                     ELSE SearchResults(call.args[1].val, call.args[2].val)) :
              /\ collab' = [collab EXCEPT ![c] =
                              [status |-> "returned", value |-> r, exc |-> NoExc]]
              /\ fut' = [fut EXCEPT ![c] =
                           [status |-> "result",
                            result |-> IF isPlan THEN r
                                       ELSE FlightPayload(call.args[1].val, r),
                            exc |-> NoExc]]
    /\ pc' = [pc EXCEPT ![c] = "completed"]
    /\ stages' = [stages EXCEPT ![c] = Append(@, <<"return", ExecutionContext>>)]
    /\ UNCHANGED << name, args, workQueue, heap, nextId, stateRef, invocations,
                    responses, errors, listCount, listed >>

\* faulty variant: a failed collaborator invocation is submitted once more
CollaboratorRaiseRetry(c) ==
    /\ pc[c] = "running"
    /\ \E e \in CollaboratorExceptions :
          /\ collab' = [collab EXCEPT ![c] =
                          [status |-> "raised", value |-> None, exc |-> e]]
          /\ fut' = IF Len(invocations[c]) < 2 THEN fut
                    ELSE [fut EXCEPT ![c] =
                            [status |-> "exception", result |-> Dict(<<>>),
                             exc |-> e]]
    /\ pc' = [pc EXCEPT ![c] =
                IF Len(invocations[c]) < 2 THEN "queued" ELSE "completed"]
    /\ workQueue' = IF Len(invocations[c]) < 2
                    THEN Append(workQueue, c) ELSE workQueue
    /\ stages' = [stages EXCEPT ![c] = Append(@, <<"raise", ExecutionContext>>)]
    /\ UNCHANGED << name, args, heap, nextId, stateRef, invocations,
                    responses, errors, listCount, listed >>

\* the collaborator of call c raises, and the exception completes the future
CollaboratorRaise(c) ==
    /\ pc[c] = "running"
    /\ \E e \in CollaboratorExceptions :
          /\ collab' = [collab EXCEPT ![c] =
                          [status |-> "raised", value |-> None, exc |-> e]]
          /\ fut' = [fut EXCEPT ![c] =
                       [status |-> "exception", result |-> Dict(<<>>), exc |-> e]]
    /\ pc' = [pc EXCEPT ![c] = "completed"]
    /\ stages' = [stages EXCEPT ![c] = Append(@, <<"raise", ExecutionContext>>)]
    /\ UNCHANGED << name, args, workQueue, heap, nextId, stateRef, invocations,
                    responses, errors, listCount, listed >>

\* faulty variant: the coroutine goes on without awaiting the job's future
NotAwaited(c) == pc[c] \in {"running", "completed"}

\* await asyncio.to_thread(...): the coroutine is suspended until the job's
\* future is complete
Awaited(c) == pc[c] = "completed"

\* call_tool after its await: the event loop resumes the coroutine, which
\* re-raises the worker's failure or assembles and returns the response
Resume(c) ==
    LET raised == AwaitRaises(fut[c])
        result == fut[c].result
        serr == SerializationError(result)
        resp == IF IsPlanTrip(name[c]) THEN PlanTripResponse(result)
                ELSE FlightResponse(result)
    IN  /\ Awaited(c)
        /\ LoopFree
        /\ errors' = [errors EXCEPT ![c] = Raised(raised, serr)]
        /\ responses' = [responses EXCEPT ![c] = Returned(raised, serr, resp)]
        /\ pc' = [pc EXCEPT ![c] = "done"]
        /\ stages' = [stages EXCEPT ![c] =
                        IF raised # {} THEN Append(@, <<"raise", "loop">>)
                        ELSE IF serr # {}
                        THEN @ \o << <<"assemble", "loop">>, <<"raise", "loop">> >>
                        ELSE Append(@, <<"assemble", "loop">>)]
        /\ UNCHANGED << name, args, workQueue, heap, nextId, stateRef,
                        invocations, collab, fut, listCount, listed >>

\* list_tools: one step of the event loop, no await inside
ListTools ==
    /\ listCount < MaxListCalls
    /\ LoopFree
    /\ listCount' = listCount + 1
    /\ listed' = ToolDescriptors
    /\ UNCHANGED callVars

\* ------------------------------------------------------- requests made
Q1 == Str("Plan a 3-day trip to Tokyo")
Q2 == Str("A weekend in Lisbon")

QuestionArgs(q) == Dict(<< <<"question", q>> >>)
FlightArgs ==
    Dict(<< <<"origin", Str("SFO")>>, <<"destination", Str("NRT")>>,
            <<"depart_date", Str("2024-05-01")>> >>)
OriginOnlyArgs == Dict(<< <<"origin", Str("SFO")>> >>)

\* the requests made: <<name, arguments>>
Requests ==
    { <<PlanTrip, QuestionArgs(Q1)>>,
      <<PlanTrip, QuestionArgs(Q2)>>,
      <<PlanTrip, FlightArgs>>,
      <<SearchFlights, FlightArgs>>,
      <<SearchFlights, OriginOnlyArgs>>,
      <<SearchFlights, QuestionArgs(Q1)>>,
      <<"travel.unknown", QuestionArgs(Q1)>>,
      <<"travel.search_hotels", FlightArgs>> }

Next ==
    \/ \E c \in Calls, req \in Requests : CallTool(c, req[1], req[2])
    \/ \E c \in Calls : WorkerStart(c)
    \/ \E c \in Calls : CollaboratorReturn(c)
    \/ \E c \in Calls : CollaboratorRaise(c)
    \/ \E c \in Calls : Resume(c)
    \/ ListTools

Spec == Init /\ [][Next]_vars

\* a step that moves a call in flight forward
Progress ==
    \E c \in Calls :
        WorkerStart(c) \/ CollaboratorReturn(c) \/ CollaboratorRaise(c) \/ Resume(c)

\* the executor runs the jobs submitted to it, the collaborators return or
\* raise (their contract), and the event loop resumes the coroutines that are
\* ready: a step that moves some call forward is not put off forever
Fairness == WF_vars(Progress)

FairSpec == Spec /\ Fairness

\* ----------------------------------- the flight lookup over wide inputs
OriginChoices == { <<>>, << <<"origin", Str("SFO")>> >>, << <<"origin", Str("")>> >> }
DestinationChoices == { <<>>, << <<"destination", Str("NRT")>> >> }
DepartChoices ==
    { <<>>, << <<"depart_date", None>> >>, << <<"depart_date", Str("")>> >>,
      << <<"depart_date", Str("2024-05-01")>> >> }
ReturnChoices ==
    { <<>>, << <<"return_date", None>> >>, << <<"return_date", Str("")>> >>,
      << <<"return_date", Str("2024-05-10")>> >> }

FlightArgChoices ==
    { Dict(o \o d \o dd \o rd) :
        o \in OriginChoices, d \in DestinationChoices,
        dd \in DepartChoices, rd \in ReturnChoices }

\* one travel.search_flights request, its arguments drawn from FlightArgChoices
NextFlights ==
    \/ \E a \in FlightArgChoices : CallTool(1, SearchFlights, a)
    \/ WorkerStart(1)
    \/ CollaboratorReturn(1)
    \/ CollaboratorRaise(1)
    \/ Resume(1)

SpecFlights == Init /\ [][NextFlights]_vars

\* ------------------------------------- the planner over wide questions
QuestionChoices ==
    { Str(""), Str(" "), Str("None"), Str("null"), Str("0"), Str("false"),
      Q1, Q2 }

\* one travel.plan_trip request, its question drawn from QuestionChoices
NextPlan ==
    \/ \E q \in QuestionChoices : CallTool(1, PlanTrip, QuestionArgs(q))
    \/ WorkerStart(1)
    \/ CollaboratorReturn(1)
    \/ CollaboratorRaise(1)
    \/ Resume(1)

SpecPlan == Init /\ [][NextPlan]_vars

\* ================================================================ claims
Outcomes(c) == Cardinality(responses[c]) + Cardinality(errors[c])

TextOf(resp) == resp.content[1].text
BlobOf(resp) == resp.content[2]

\* C1: every call_tool request that was made ends, and ends with exactly one
\* outcome: one ToolResponse returned or one error raised, never both and
\* never neither; a call that has not ended has no outcome yet.
C1_ExactlyOneOutcome ==
    /\ [](\A c \in Calls :
            /\ pc[c] = "done" => Outcomes(c) = 1
            /\ pc[c] # "done" => Outcomes(c) = 0)
    /\ \A c \in Calls : (pc[c] # "idle") ~> (pc[c] = "done")

C1_Witness ==
    \E c, d \in Calls :
        /\ pc[c] = "done" /\ responses[c] # {} /\ errors[c] = {}
        /\ pc[d] = "done" /\ responses[d] = {} /\ collab[d].status = "raised"

\* C2: a call with a name other than travel.plan_trip and
\* travel.search_flights fails with the unsupported-tool error, returns no
\* response, and neither submits a job nor invokes a collaborator.
C2_UnsupportedTool ==
    \A c \in Calls :
        (pc[c] # "idle" /\ name[c] \notin {PlanTrip, SearchFlights}) =>
            /\ pc[c] = "done"
            /\ errors[c] = {Exc("ToolError", "Unsupported tool: " \o name[c])}
            /\ responses[c] = {}
            /\ invocations[c] = <<>>
            /\ collab[c].status = "none"
            /\ fut[c].status = "none"
            /\ stateRef[c] = 0
            /\ \A i \in 1..Len(workQueue) : workQueue[i] # c

C2_Witness ==
    \E c, d \in Calls :
        /\ name[c] = "travel.search_hotels" /\ pc[c] = "done"
        /\ Has(args[c], "origin") /\ Has(args[c], "destination")
        /\ pc[d] = "running"

\* C3 (as claimed): a travel.plan_trip call whose arguments lack `question`
\* fails with a MissingRequiredArgument error; no state is built and the
\* pipeline is not invoked.
C3_MissingQuestionAsClaimed ==
    \A c \in Calls :
        (pc[c] # "idle" /\ name[c] = PlanTrip /\ ~Has(args[c], "question")) =>
            /\ pc[c] = "done"
            /\ errors[c] = {Exc("MissingRequiredArgument", "question")}
            /\ responses[c] = {}
            /\ stateRef[c] = 0
            /\ invocations[c] = <<>>

C5_CollaboratorFailure ==
    \A c \in Calls :
        collab[c].status = "raised" =>
            /\ pc[c] \in {"completed", "done"}
            /\ fut[c].status = "exception" /\ fut[c].exc = collab[c].exc
            /\ responses[c] = {}
            /\ pc[c] = "completed" => ENABLED Resume(c)
            /\ pc[c] = "done" => errors[c] = {collab[c].exc}

C5_Witness ==
    \E c, d \in Calls :
        /\ name[c] = PlanTrip /\ collab[c].status = "raised" /\ pc[c] = "done"
        /\ name[d] = SearchFlights /\ collab[d].status = "raised"
        /\ pc[d] = "done"

RECURSIVE Leaves(_)
\* the strings held anywhere inside a value
Leaves(v) ==
    CASE v.type = "str" -> {v.val}
      [] v.type = "list" -> UNION {Leaves(v.val[i]) : i \in 1..Len(v.val)}
      [] v.type = "dict" -> UNION {Leaves(v.val[i][2]) : i \in 1..Len(v.val)}
      [] OTHER -> {}

\* the travel.plan_trip calls that got past arguments["question"]
Planning(c) == name[c] = PlanTrip /\ stateRef[c] # 0
QuestionOf(c) == DictGet(args[c], "question")
\* the strings that stem from a question
StemsFrom(q) == {q.val, "Itinerary for " \o q.val}

\* C6: two travel.plan_trip calls with different questions never share a
\* state object; the state each hands to the pipeline holds its own question
\* and nothing of the other's, and its response is built from the result of
\* its own pipeline invocation, which holds nothing of the other's either.
C6_NoCrossCallLeak ==
    \A c \in Calls : Planning(c) =>
        /\ \A i \in 1..Len(invocations[c]) :
              LET state == invocations[c][i].args[1]
              IN  /\ DictGet(state, "user_question") = QuestionOf(c)
                  /\ DictGet(state, "messages") =
                        List(<< Dict(<< <<"role", Str("user")>>,
                                        <<"content", QuestionOf(c)>> >>) >>)
        /\ pc[c] # "done" =>
              DictGet(heap[stateRef[c]], "user_question") = QuestionOf(c)
        /\ \A r \in responses[c] :
              /\ collab[c].status = "returned"
              /\ BlobOf(r).data = Encode(Dumps(collab[c].value, ""))
              /\ TextOf(r) \in {DictGet(collab[c].value, "final_answer"),
                                Str("No response produced.")}
        /\ \A d \in Calls :
              (d # c /\ Planning(d) /\ QuestionOf(d) # QuestionOf(c)) =>
                  /\ stateRef[c] # stateRef[d]
                  /\ \A i \in 1..Len(invocations[c]) :
                        Leaves(invocations[c][i].args[1])
                           \cap StemsFrom(QuestionOf(d)) = {}
                  /\ Leaves(collab[c].value) \cap StemsFrom(QuestionOf(d)) = {}
                  /\ \A r \in responses[c] :
                        Leaves(TextOf(r)) \cap StemsFrom(QuestionOf(d)) = {}

\* two calls with different questions in flight at once: the pipeline of
\* one has returned and awaits its resumption while the other's is running
C6_Witness ==
    \E c, d \in Calls :
        /\ Planning(c) /\ Planning(d) /\ QuestionOf(c) # QuestionOf(d)
        /\ pc[c] = "completed" /\ collab[c].status = "returned"
        /\ pc[d] = "running"

\* C7: list_tools can run whenever it is requested, whatever the calls in
\* flight are doing, and a list_tools step changes nothing of any call.
C7_ListToolsIndependent ==
    /\ [](listCount < MaxListCalls => ENABLED ListTools)
    /\ [][listCount' # listCount =>
            /\ UNCHANGED callVars
            /\ listed' = ToolDescriptors]_vars

\* list_tools has answered and can answer again while one plan_trip call is
\* inside the pipeline and another waits for a worker
C7_Witness ==
    \E c, d \in Calls :
        /\ listCount = 1 /\ listed = ToolDescriptors
        /\ name[c] = PlanTrip /\ pc[c] = "running"
        /\ name[d] = PlanTrip /\ pc[d] = "queued"

\* a date argument that is present and non-empty
Given(a, k) == Has(a, k) /\ DictGet(a, k) \notin {None, Str("")}

\* C8: the query handed to the search is "flights from <origin> to
\* <destination>", then " on <depart_date>" iff depart_date is present and
\* non-empty, then " return <return_date>" iff return_date is present and
\* non-empty.
C8_FlightQuery ==
    \A c \in Calls :
        \A i \in 1..Len(invocations[c]) :
            invocations[c][i].fn = "serp_search" =>
                invocations[c][i].args[1] =
                    Str("flights from " \o DictGet(args[c], "origin").val
                        \o " to " \o DictGet(args[c], "destination").val
                        \o (IF Given(args[c], "depart_date")
                            THEN " on " \o DictGet(args[c], "depart_date").val
                            ELSE "")
                        \o (IF Given(args[c], "return_date")
                            THEN " return " \o DictGet(args[c], "return_date").val
                            ELSE ""))

C8_Witness ==
    \E c \in Calls :
        /\ pc[c] = "running"
        /\ Has(args[c], "depart_date") /\ DictGet(args[c], "depart_date") = Str("")
        /\ invocations[c] =
             << [fn |-> "serp_search",
                 args |-> << Str("flights from SFO to NRT return 2024-05-10"),
                             Str("google") >>] >>

\* C9: in a successful travel.search_flights call the search was invoked
\* once, with engine "google" and with the query that the payload and the
\* text summary carry; the payload holds exactly `query` and `results`, and
\* `results` is what the search returned.
C9_SearchPayload ==
    \A c \in Calls :
        \A r \in responses[c] :
            name[c] = SearchFlights =>
                /\ Len(invocations[c]) = 1
                /\ invocations[c][1].fn = "serp_search"
                /\ invocations[c][1].args[2] = Str("google")
                /\ collab[c].status = "returned"
                /\ LET q == invocations[c][1].args[1]
                       payload == Dict(<< <<"query", q>>,
                                          <<"results", collab[c].value>> >>)
                   IN  /\ fut[c].result = payload
                       /\ BlobOf(r).data = Encode(Dumps(payload, ""))
                       /\ TextOf(r) =
                            Str("Flight SERP query executed: " \o q.val)

C9_Witness ==
    \E c \in Calls :
        \E r \in responses[c] :
            /\ pc[c] = "done"
            /\ args[c] = Dict(<< <<"origin", Str("SFO")>>,
                                 <<"destination", Str("NRT")>>,
                                 <<"depart_date", Str("2024-05-01")>> >>)
            /\ invocations[c][1].args[1] =
                 Str("flights from SFO to NRT on 2024-05-01")
            /\ TextOf(r) = Str("Flight SERP query executed: flights from SFO to NRT on 2024-05-01")
            /\ BlobOf(r).data.val =
                 "{\n  \"query\": \"flights from SFO to NRT on 2024-05-01\","
                 \o "\n  \"results\": {\n    \"organic\": [\n      "
                 \o "\"google result for flights from SFO to NRT on 2024-05-01\""
                 \o "\n    ]\n  }\n}"

\* C10: in a successful travel.plan_trip call the text part is the result's
\* final_answer when that is present and truthy, and exactly
\* "No response produced." when it is absent, None or the empty string.
C10_FinalAnswerText ==
    \A c \in Calls :
        \A r \in responses[c] :
            name[c] = PlanTrip =>
                LET result == collab[c].value
                    fa == DictGet(result, "final_answer")
                IN  IF Has(result, "final_answer") /\ fa # None /\ fa # Str("")
                    THEN TextOf(r) = fa
                    ELSE TextOf(r) = Str("No response produced.")

C10_Witness ==
    \E c, d \in Calls :
        /\ name[c] = PlanTrip /\ responses[c] # {}
        /\ DictGet(collab[c].value, "final_answer") = Str("")
        /\ name[d] = PlanTrip /\ responses[d] # {}
        /\ ~Has(collab[d].value, "final_answer")
\* C11: every ToolResponse has exactly two content parts, the text part
\* first and then a blob of media type application/json whose bytes are the
\* serialization of the call's full structured result: the whole result
\* mapping of the pipeline (file plan_trip.json) for travel.plan_trip, and
\* {query, results} for travel.search_flights.
C11_ResponseShape ==
    \A c \in Calls :
        \A r \in responses[c] :
            /\ Len(r.content) = 2
            /\ r.content[1].kind = "text"
            /\ r.content[2].kind = "blob"
            /\ r.content[2].media_type = "application/json"
            /\ collab[c].status = "returned"
            /\ name[c] \in {PlanTrip, SearchFlights}
            /\ name[c] = PlanTrip =>
                  /\ r.content[2].filename = "plan_trip.json"
                  /\ r.content[2].data = Encode(Dumps(collab[c].value, ""))
            /\ name[c] = SearchFlights =>
                  r.content[2].data =
                     Encode(Dumps(Dict(<< <<"query", invocations[c][1].args[1]>>,
                                          <<"results", collab[c].value>> >>), ""))

C11_Witness ==
    \E c, d \in Calls :
        /\ name[c] = PlanTrip /\ pc[c] = "done" /\ responses[c] # {}
        /\ name[d] = SearchFlights /\ pc[d] = "done" /\ responses[d] # {}

NamesOf(descriptors) == [i \in 1..Len(descriptors) |-> descriptors[i].name]

\* C12: whatever calls were made before, every list_tools returns the same
\* ordered descriptors, travel.plan_trip and then travel.search_flights,
\* with pairwise distinct names.
C12_StableRegistry ==
    listCount > 0 =>
        /\ NamesOf(listed) = <<"travel.plan_trip", "travel.search_flights">>
        /\ \A i, j \in 1..Len(listed) :
              i # j => listed[i].name # listed[j].name
        /\ listed[1].input_schema.required = <<"question">>
        /\ listed[2].input_schema.required = <<"origin", "destination">>

\* list_tools has answered twice, after one call failed and while another
\* is inside its collaborator
C12_Witness ==
    \E c, d \in Calls :
        /\ listCount = 2
        /\ pc[c] = "done" /\ errors[c] # {}
        /\ pc[d] = "running"
\* a call whose collaborator returned a result that json.dumps cannot encode
SerializationFailed(c) ==
    pc[c] = "done" /\ collab[c].status = "returned" /\ ~Serializable(fut[c].result)

\* C13 (as claimed): when the collaborator returned but its result cannot be
\* serialized, the call ends with an error and no response, and the caller
\* can tell that error apart from the error of any call whose collaborator
\* itself failed.
C13_SerializationFailureAsClaimed ==
    \A c \in Calls :
        SerializationFailed(c) =>
            /\ responses[c] = {}
            /\ Cardinality(errors[c]) = 1
            /\ \A d \in Calls :
                  (pc[d] = "done" /\ collab[d].status = "raised") =>
                      errors[d] # errors[c]

\* the part of C13 that holds: an error, and no response
C13_ErrorNoResponse ==
    \A c \in Calls :
        SerializationFailed(c) =>
            /\ responses[c] = {}
            /\ errors[c] = {Exc("TypeError", "Object is not JSON serializable")}
\* the calls blocked inside their collaborator
Blocked == {c \in Calls : pc[c] = "running"}

Pos(c, s) == {i \in 1..Len(stages[c]) : stages[c][i][1] = s}

\* the stages the claim orders, in the claimed order, with the return of the
\* collaborator between its invocation and the assembly
Order == <<"build", "invoke", "return", "assemble">>

\* the stages of call c that the claim orders, as they happened
Ordered(c) == SelectSeq(stages[c], LAMBDA s : \E i \in 1..Len(Order) : s[1] = Order[i])

\* C15: within one call the stages happen in the order build, invoke,
\* assemble, each at most once and none without the one before it: the
\* collaborator is invoked only after the state or query of that call is
\* fully built and with exactly that state or query, the response is
\* assembled only after the collaborator has returned, and while the
\* collaborator is running the call does nothing else (it cannot resume and
\* has no outcome yet).
C15_StagesInOrder ==
    \A c \in Calls :
        /\ Len(Ordered(c)) <= Len(Order)
        /\ \A i \in 1..Len(Ordered(c)) : Ordered(c)[i][1] = Order[i]
        /\ Len(Ordered(c)) = Len(Order) => collab[c].status = "returned"
        /\ \A k \in 1..Len(invocations[c]) :
              IF name[c] = PlanTrip
              THEN invocations[c][k].args =
                      << _default_state(DictGet(args[c], "question")) >>
              ELSE invocations[c][k].args[1] = Str(FlightQuery(args[c]))
        /\ pc[c] = "running" =>
              /\ ~ ENABLED Resume(c)
              /\ Len(Ordered(c)) = 2
              /\ Outcomes(c) = 0
        /\ responses[c] # {} => Len(Ordered(c)) = Len(Order)

C15_Witness ==
    \E c \in Calls :
        /\ responses[c] # {}
        /\ \E i \in Pos(c, "build"), j \in Pos(c, "invoke"),
              k \in Pos(c, "return"), l \in Pos(c, "assemble") :
                 i < j /\ j < k /\ k < l
\* ------------------------------------------------------------------- C16
\* call c was made with a name no tool has
UnknownTool(c) == pc[c] # "idle" /\ name[c] \notin {PlanTrip, SearchFlights}

\* call c was made without an argument its tool requires
MissingRequired(c) ==
    \/ name[c] = PlanTrip /\ ~ Has(args[c], "question")
    \/ name[c] = SearchFlights
          /\ (~ Has(args[c], "origin") \/ ~ Has(args[c], "destination"))

\* C16: nothing is retried: a call invokes a collaborator at most once;
\* exactly once when it returned a ToolResponse and exactly once when its
\* collaborator failed (also after the failure was raised to the caller),
\* never for an unknown tool or a missing required argument.
C16_NoRetry ==
    \A c \in Calls :
        /\ Len(invocations[c]) <= 1
        /\ responses[c] # {} => Len(invocations[c]) = 1
        /\ collab[c].status = "raised" =>
              /\ Len(invocations[c]) = 1
              /\ pc[c] \in {"completed", "done"}
              /\ ~ ENABLED WorkerStart(c)
        /\ (UnknownTool(c) \/ MissingRequired(c)) => Len(invocations[c]) = 0

C16_Witness ==
    /\ \E c \in Calls :
          /\ pc[c] = "done" /\ collab[c].status = "raised"
          /\ errors[c] = {collab[c].exc}
    /\ \E c \in Calls : pc[c] = "done" /\ MissingRequired(c)
\* ------------------------------------------------------------------- C17
\* the result and analysis slots of the pipeline state
Slots ==
    { "google_results", "bing_results", "reddit_results",
      "selected_reddit_urls", "reddit_post_data", "google_analysis",
      "bing_analysis", "reddit_analysis", "final_answer" }

\* C17: for every question string, the empty one included, building the
\* state does not fail (the call goes on to submit its job with no error),
\* and the state handed to the pipeline has exactly one seed message, with
\* role user and the question as content, user_question equal to the
\* question, and each of the nine slots present and None, and nothing else.
C17_DefaultState ==
    \A c \in Calls :
        (name[c] = PlanTrip /\ Has(args[c], "question")) =>
            LET q == DictGet(args[c], "question")
                st == heap[stateRef[c]]
            IN  /\ stateRef[c] # 0
                /\ Pos(c, "build") # {} /\ Pos(c, "submit") # {}
                /\ pc[c] \in {"queued", "running"} => errors[c] = {}
                /\ st.type = "dict"
                /\ Len(st.val) = 2 + Cardinality(Slots)
                /\ Has(st, "messages")
                /\ DictGet(st, "messages").type = "list"
                /\ Len(DictGet(st, "messages").val) = 1
                /\ DictGet(st, "messages").val[1] =
                      Dict(<< <<"role", Str("user")>>, <<"content", q>> >>)
                /\ Has(st, "user_question")
                /\ DictGet(st, "user_question") = q
                /\ \A s \in Slots : Has(st, s) /\ DictGet(st, s) = None
                /\ \A k \in 1..Len(invocations[c]) :
                      /\ invocations[c][k].fn = "graph.invoke"
                      /\ invocations[c][k].args = <<st>>

C17_Witness ==
    \E c \in Calls :
        /\ name[c] = PlanTrip
        /\ args[c] = QuestionArgs(Str(""))
        /\ Len(invocations[c]) = 1
        /\ DictGet(invocations[c][1].args[1], "user_question") = Str("")
\* ------------------------------------------------------------------- C18
\* call c has failed: an error was raised to its caller, or is waiting in
\* its future to be raised
Failed(c) == errors[c] # {} \/ fut[c].status = "exception"

\* the answers the collaborator may give call d, from d's own request alone
OwnAnswers(d) ==
    IF name[d] = PlanTrip
    THEN PipelineResults(_default_state(DictGet(args[d], "question")))
    ELSE SearchResults(FlightQuery(args[d]), SearchEngine)

\* the errors of an ended call d as a function of its own request and of the
\* answer its own collaborator invocation got
OwnErrors(d) ==
    LET payload == IF name[d] = PlanTrip THEN collab[d].value
                   ELSE Dict(<< <<"query", Str(FlightQuery(args[d]))>>,
                                <<"results", collab[d].value>> >>)
    IN  CASE UnknownTool(d) -> {UnsupportedTool(name[d])}
          [] name[d] = PlanTrip /\ MissingRequired(d) -> {KeyError("question")}
          [] name[d] = SearchFlights /\ MissingRequired(d) ->
                {KeyError(IF Has(args[d], "origin")
                          THEN "destination" ELSE "origin")}
          [] collab[d].status = "raised" -> {collab[d].exc}
          [] OTHER -> SerializationError(payload)

\* the text of the response of call d, from the same
OwnText(d) ==
    IF name[d] = PlanTrip THEN FinalAnswerText(collab[d].value)
    ELSE Str("Flight SERP query executed: " \o FlightQuery(args[d]))

\* what holds of the other calls whatever calls have failed
OthersUnaffected ==
    /\ listed \in {<<>>, ToolDescriptors}
    /\ listCount < MaxListCalls => ENABLED ListTools
    /\ \A c \in Calls :
          Failed(c) =>
              /\ pc[c] \in {"completed", "done"}
              /\ \A i \in 1..Len(workQueue) : workQueue[i] # c
              /\ \A d \in Calls \ {c} :
                    /\ (pc[d] = "idle" /\ \A e \in Calls : e < d => pc[e] # "idle")
                          => ENABLED CallTool(d, SearchFlights, FlightArgs)
                    /\ (pc[d] = "queued" /\ Head(workQueue) = d
                          /\ \A e \in Calls : pc[e] # "running")
                          => ENABLED WorkerStart(d)
                    /\ pc[d] = "running" => ENABLED CollaboratorReturn(d)
    /\ \A d \in Calls :
          /\ collab[d].status = "returned" => collab[d].value \in OwnAnswers(d)
          /\ pc[d] = "done" =>
                /\ errors[d] = OwnErrors(d)
                /\ Cardinality(responses[d]) = (IF OwnErrors(d) = {} THEN 1 ELSE 0)
                /\ \A r \in responses[d] : TextOf(r) = OwnText(d)

\* a step in which a call fails (its job's future takes an exception, or an
\* error is raised to its caller) leaves every other call, and list_tools,
\* exactly as they were
FailingStepIsLocal ==
    \A c \in Calls :
        ((fut'[c].status = "exception" /\ fut[c].status # "exception")
            \/ (errors'[c] # {} /\ errors[c] = {})) =>
            /\ \A d \in Calls \ {c} :
                  /\ name'[d] = name[d] /\ args'[d] = args[d]
                  /\ pc'[d] = pc[d] /\ stateRef'[d] = stateRef[d]
                  /\ stateRef[d] # 0 => heap'[stateRef[d]] = heap[stateRef[d]]
                  /\ invocations'[d] = invocations[d]
                  /\ collab'[d] = collab[d] /\ fut'[d] = fut[d]
                  /\ responses'[d] = responses[d] /\ errors'[d] = errors[d]
                  /\ stages'[d] = stages[d]
            /\ SelectSeq(workQueue', LAMBDA d : d # c)
                  = SelectSeq(workQueue, LAMBDA d : d # c)
            /\ listCount' = listCount /\ listed' = listed

\* C18: an error is fatal to its own call only. The step in which a call
\* fails changes nothing of any other call, of the order of their jobs in
\* the executor's queue, or of list_tools. A failed call keeps nothing the
\* others need: it is not in the executor's queue and holds no thread.
\* Whatever calls have failed, every other call goes on as its own position
\* allows (it can be dispatched, its job started when a thread is free, its
\* collaborator can answer), the answer it gets is one its own request
\* admits, its outcome (which error, or a response and its text) is the one
\* its own request and its own collaborator's answer determine, and
\* list_tools still returns the catalogue.
C18_ErrorsAreLocal == []OthersUnaffected /\ [][FailingStepIsLocal]_vars

C18_Witness ==
    \E c, d \in Calls :
        /\ c < d
        /\ pc[c] = "done" /\ collab[c].status = "raised" /\ errors[c] # {}
        /\ pc[d] = "done" /\ responses[d] # {}

\* ------------------------------------------------------------------- C19
Fallback == Str("No response produced.")

\* json.dumps(result, indent=2) of the state built for Q1 after the pipeline
\* dropped its final_answer key, as Python prints it
Q1WithoutAnswerJson ==
    "{\n" \o
    "  \"messages\": [\n" \o
    "    {\n" \o
    "      \"role\": \"user\",\n" \o
    "      \"content\": \"Plan a 3-day trip to Tokyo\"\n" \o
    "    }\n" \o
    "  ],\n" \o
    "  \"user_question\": \"Plan a 3-day trip to Tokyo\",\n" \o
    "  \"google_results\": null,\n" \o
    "  \"bing_results\": null,\n" \o
    "  \"reddit_results\": null,\n" \o
    "  \"selected_reddit_urls\": null,\n" \o
    "  \"reddit_post_data\": null,\n" \o
    "  \"google_analysis\": null,\n" \o
    "  \"bing_analysis\": null,\n" \o
    "  \"reddit_analysis\": null\n" \o
    "}"

\* C19: in travel.plan_trip the blob is the serialization of the result
\* exactly as the pipeline returned it; when final_answer is absent or falsy
\* the text is the fallback while the serialized result is not the one with
\* the fallback written into it, and the fallback occurs nowhere in it.
C19_FallbackLeavesBlob ==
    \A c \in Calls :
        \A r \in responses[c] :
            name[c] = PlanTrip =>
                LET result == collab[c].value
                    falsy == \/ ~ Has(result, "final_answer")
                             \/ DictGet(result, "final_answer") \in {None, Str("")}
                IN  /\ BlobOf(r).data = Encode(Dumps(result, ""))
                    /\ falsy =>
                          /\ TextOf(r) = Fallback
                          /\ BlobOf(r).data #
                                Encode(Dumps(DictSet(result, "final_answer",
                                                     Fallback), ""))
                          /\ Fallback.val \notin Leaves(result)
                          /\ (args[c] = QuestionArgs(Q1)
                                /\ ~ Has(result, "final_answer")) =>
                                BlobOf(r).data.val = Q1WithoutAnswerJson

C19_Witness ==
    \E c \in Calls :
        \E r \in responses[c] :
            /\ name[c] = PlanTrip
            /\ ~ Has(collab[c].value, "final_answer")
            /\ TextOf(r) = Fallback
            /\ BlobOf(r).data.val = Q1WithoutAnswerJson
\* ------------------------------------------------------------------- C20
\* the last n stages of call c
LastStages(c, n) ==
    IF Len(stages[c]) < n THEN <<>>
    ELSE SubSeq(stages[c], Len(stages[c]) - n + 1, Len(stages[c]))

\* C20: a travel.plan_trip call without question fails on the event loop
\* before any job is submitted: no worker runs for it and no future exists.
\* A travel.search_flights call without origin or destination is submitted
\* like any other, has no error while it waits, reads its arguments and
\* fails on the worker thread, and the KeyError travels through the job's
\* future to the event loop, which raises it to the caller: the path a
\* collaborator's exception takes.
C20_WhereArgumentsAreChecked ==
    \A c \in Calls :
        /\ (name[c] = PlanTrip /\ ~ Has(args[c], "question")) =>
              /\ pc[c] = "done"
              /\ stages[c] = << <<"lookup", "loop">>, <<"raise", "loop">> >>
              /\ fut[c] = NoFuture
              /\ invocations[c] = <<>>
              /\ \A i \in 1..Len(workQueue) : workQueue[i] # c
              /\ errors[c] = {KeyError("question")}
        /\ (name[c] = SearchFlights /\ MissingRequired(c)) =>
              /\ stages[c][1] = <<"submit", "loop">>
              /\ pc[c] \in {"queued", "completed", "done"}
              /\ pc[c] = "queued" =>
                    /\ Len(stages[c]) = 1 /\ errors[c] = {}
                    /\ \E i \in 1..Len(workQueue) : workQueue[i] = c
              /\ pc[c] \in {"completed", "done"} =>
                    /\ SubSeq(stages[c], 2, 3) =
                          << <<"lookup", "worker">>, <<"raise", "worker">> >>
                    /\ fut[c].status = "exception"
                    /\ fut[c].exc \in {KeyError("origin"), KeyError("destination")}
                    /\ collab[c].status = "none"
              /\ pc[c] = "completed" => errors[c] = {}
        /\ fut[c].status = "exception" =>
              /\ pc[c] \in {"completed", "done"}
              /\ pc[c] = "completed" =>
                    /\ LastStages(c, 1) = << <<"raise", "worker">> >>
                    /\ Outcomes(c) = 0
              /\ pc[c] = "done" =>
                    /\ LastStages(c, 2) =
                          << <<"raise", "worker">>, <<"raise", "loop">> >>
                    /\ errors[c] = {fut[c].exc}
                    /\ responses[c] = {}

C20_Witness ==
    \E b, c, d \in Calls :
        /\ name[b] = PlanTrip /\ ~ Has(args[b], "question") /\ pc[b] = "done"
        /\ name[c] = SearchFlights /\ MissingRequired(c) /\ pc[c] = "done"
        /\ errors[c] = {fut[c].exc}
        /\ \/ d = c
           \/ collab[d].status = "raised" /\ pc[d] = "done"
====
